---- MODULE Spec2Model ----
(***************************************************************************)
(* The CI/CD pipeline that QuickstartPipeline declares (four stages, five  *)
(* actions, two artifacts), the CodeBuild projects of project-buildspec,   *)
(* and the Fargate service with its circuit breaker and its two target     *)
(* tracking policies that EcsService declares.  The constructs are         *)
(* declarative: each action below is the behaviour the declared construct  *)
(* has when the pipeline executes, parameterised by the declared values.   *)
(***************************************************************************)
EXTENDS Integers, Sequences, FiniteSets, TLC

\* ------------------------------------------------------------------ bounds
NumOthers == 1
NumRevisions == 2
RevLen == 10
MaxRollbackRetries == 1

\* Other pipeline instances in flight whose migration action targets the
\* same database, that is, starts a build of the same migration project.
Others == 1..NumOthers

\* A source revision is a string of RevLen characters; revision i differs
\* from the others in one character.
RevOf(i) == [k \in 1..RevLen |-> IF k = RevLen - i + 1 THEN "1" ELSE "0"]

\* The revision abc123def, as short as the tag the build cuts from it.
ShortRevision == << "a", "b", "c", "1", "2", "3", "d", "e", "f" >>

\* The revisions the head of the branch can be at when the source action runs.
Revisions == {ShortRevision} \cup {RevOf(i) : i \in 1..(NumRevisions - 1)}

\* Environment names the stack can be instantiated with ($CDK_ENV): the three
\* of the branch table, one outside it, and one that names a property every
\* object inherits.
EnvironmentNames == {"dev", "test", "prod", "qa", "constructor"}

\* Utilization samples (percent) a metric window can average to.
Utilizations == {30, 50, 80}

\* ------------------------------------------------- declared configuration
sourceAction == "SourceAction"
infrastructureAction == "InfrastructureAction"
apiAction == "BuildApiAction"
migrationAction == "RunMigrationsAction"
deployApiAction == "DeployApiAction"

\* CDK_ENV: environmentName = 'dev'
DefaultEnvironmentName == "dev"

\* static environmentBranchMapping = { dev: 'dev', test: 'test', prod: 'main' }
environmentBranchMapping == [dev |-> "dev", test |-> "test", prod |-> "main"]

\* What an object literal inherits from Object.prototype, as far as the
\* environment names drawn reach it: the value is a function, here written as
\* the string it converts to.
ObjectPrototype == [constructor |-> "function Object() { [native code] }"]

\* environmentBranchMapping[name]: the object's own property, else the
\* inherited one, else undefined ({}).
Lookup(name) ==
  IF name \in DOMAIN environmentBranchMapping THEN {environmentBranchMapping[name]}
  ELSE IF name \in DOMAIN ObjectPrototype THEN {ObjectPrototype[name]}
  ELSE {}

\* environmentBranchMapping[environmentName] || environmentName
Branch(name) ==
  IF Lookup(name) # {} /\ Lookup(name) # {""}
    THEN CHOOSE b \in Lookup(name) : TRUE
    ELSE name

\* The revisions the head of branch b can be at.  The default environment's
\* branch has Revisions; the branches of the other environments have two
\* commits that differ only after their ninth character; a branch that does
\* not exist has none.
RevisionsOn(b) ==
  IF b = Branch(DefaultEnvironmentName) THEN Revisions
  ELSE IF b \in {"test", "main", "qa"} THEN {RevOf(1), Append(RevOf(1), "1")}
  ELSE {}

sourceArtifact == "sourceArtifact"
buildArtifact == "buildArtifact"
Artifacts == {sourceArtifact, buildArtifact}

\* The stage list with BuildAPI declared before DeployInfrastructure.
stagesBuildFirst ==
  << [stageName |-> "CheckoutSource", actions |-> <<sourceAction>>],
     [stageName |-> "BuildAPI", actions |-> <<apiAction>>],
     [stageName |-> "DeployInfrastructure", actions |-> <<infrastructureAction>>],
     [stageName |-> "DeployAPI", actions |-> <<deployApiAction, migrationAction>>] >>

\* The stage list with DeployAPI declared before BuildAPI.
stagesDeployBeforeBuild ==
  << [stageName |-> "CheckoutSource", actions |-> <<sourceAction>>],
     [stageName |-> "DeployInfrastructure", actions |-> <<infrastructureAction>>],
     [stageName |-> "DeployAPI", actions |-> <<deployApiAction, migrationAction>>],
     [stageName |-> "BuildAPI", actions |-> <<apiAction>>] >>

\* The stage list with the migration in a stage of its own before the deploy.
stagesMigrationFirst ==
  << [stageName |-> "CheckoutSource", actions |-> <<sourceAction>>],
     [stageName |-> "DeployInfrastructure", actions |-> <<infrastructureAction>>],
     [stageName |-> "BuildAPI", actions |-> <<apiAction>>],
     [stageName |-> "Migrate", actions |-> <<migrationAction>>],
     [stageName |-> "DeployAPI", actions |-> <<deployApiAction>>] >>

\* new codepipeline.Pipeline(..., { stages: [...] })
stages ==
  << [stageName |-> "CheckoutSource", actions |-> <<sourceAction>>],
     [stageName |-> "DeployInfrastructure", actions |-> <<infrastructureAction>>],
     [stageName |-> "BuildAPI", actions |-> <<apiAction>>],
     [stageName |-> "DeployAPI", actions |-> <<deployApiAction, migrationAction>>] >>

Range(s) == {s[i] : i \in DOMAIN s}
Actions == UNION {Range(stages[i].actions) : i \in DOMAIN stages}
StageActions(n) == Range(stages[n + 1].actions)
\* Ordinal (from 0) of the stage that holds action a.
StageOf(a) == (CHOOSE i \in DOMAIN stages : a \in Range(stages[i].actions)) - 1
LastStage == Len(stages) - 1

\* input / imageFile of each action
Inputs(a) ==
  CASE a = sourceAction -> {}
    [] a = infrastructureAction -> {sourceArtifact}
    [] a = apiAction -> {sourceArtifact}
    [] a = migrationAction -> {sourceArtifact}
    [] a = deployApiAction -> {buildArtifact}

\* output / outputs of each action
Outputs(a) ==
  CASE a = sourceAction -> {sourceArtifact}
    [] a = apiAction -> {buildArtifact}
    [] OTHER -> {}

Producer(x) == CHOOSE a \in Actions : x \in Outputs(a)

\* The project without concurrentBuildLimit: no build is ever over the limit.
concurrentBuildLimitUnset == NumOthers + 1

\* migrationProjectConfig: concurrentBuildLimit
concurrentBuildLimit == 1

\* autoscalingConfig passed by QuickstartStack.buildEcsService
maxCapacity == 4
minCapacity == 1
cpuTargetUtilizationPercent == 50
ramTargetUtilizationPercent == 50

\* circuitBreaker: { rollback: false }
circuitBreakerNoRollback == FALSE

\* circuitBreaker: { rollback: true }
circuitBreakerRollback == TRUE

\* cut -c 1-9
TagLen == 9

serviceName == "svc"
ECR_REPO_URI == "registry/svc"
LatestTag == <<"l", "a", "t", "e", "s", "t">>
\* taskImageOptions.image: the environment-unaware repository, tag latest
BaseImage == [repo |-> "quickstart/svc", tag |-> LatestTag]

\* ------------------------------------------------------------------- state
VARIABLES
  status,           \* the run: "idle", "running", "succeeded", "failed"
  stage,            \* ordinal of the stage the run is in
  act,              \* per action: "idle", "running", "succeeded", "failed"
  error,            \* per action: the error of a failed action, or "none"
  cause,            \* the error surfaced as the cause of the failed run
  artifactStore,    \* per artifact: {} or {payload}
  build,            \* the BuildAPI project's build (phase, workspace)
  applied,          \* {} or {image reference the deploy action applied}
  other,            \* per other instance: its migration action's state
  activeBuilds,     \* builds of the migration project that are running
  ecrImages,        \* tags present in the environment's ECR repository
  currentImageRef,  \* image of the service's task definition
  previousImageRef, \* image the service ran when the rollout in progress began
  rollout,          \* "idle", "rolling-out", "healthy", "rolling-back", "stable", "fatal"
  rollbackAttempts, \* failed rollback attempts of the rollout in progress
  desiredCount,     \* the service's desired task count
  schema,           \* {} or {revision whose migrations the database has}
  environmentName,  \* props.environmentName of the instantiation
  branch            \* the branch the source action was built with

vars == << status, stage, act, error, cause, artifactStore, build, applied,
           other, activeBuilds, ecrImages, currentImageRef, previousImageRef,
           rollout, rollbackAttempts, desiredCount, schema, environmentName,
           branch >>

pipelineVars == << status, stage, act, error, cause >>
runtimeVars == << currentImageRef, previousImageRef, rollout, rollbackAttempts >>
migrationVars == << other, activeBuilds >>
instanceVars == << environmentName, branch >>

NoBuild == [phase |-> "none", ok |-> TRUE, version |-> {}, local |-> {}, file |-> {}]

\* The state after the stack is instantiated for environment name: the
\* constructor builds the source action with the branch of the name.
Instantiate(name) ==
  /\ environmentName = name
  /\ branch = Branch(name)
  /\ schema = {}
  /\ status = "idle"
  /\ stage = 0
  /\ act = [a \in Actions |-> "idle"]
  /\ error = [a \in Actions |-> "none"]
  /\ cause = "none"
  /\ artifactStore = [x \in Artifacts |-> {}]
  /\ build = NoBuild
  /\ applied = {}
  /\ other = [i \in Others |-> "idle"]
  /\ activeBuilds = 0
  /\ ecrImages = {}
  /\ currentImageRef = BaseImage
  /\ previousImageRef = BaseImage
  /\ rollout = "idle"
  /\ rollbackAttempts = 0
  /\ desiredCount = minCapacity

Init == Instantiate(DefaultEnvironmentName)

\* The stack instantiated with any of the environment names.
InitAnyEnvironment == \E name \in EnvironmentNames : Instantiate(name)

\* ------------------------------------------------------ pipeline sequencer
Terminal(a) == act[a] \in {"succeeded", "failed"}
Started(a) == act[a] # "idle"
SiblingFailed(n) == \E b \in StageActions(n) : act[b] = "failed"

\* An action of the run's current stage is dispatched while no action of the
\* stage has failed.
CanStart(a) ==
  /\ status = "running"
  /\ stage = StageOf(a)
  /\ act[a] = "idle"
  /\ ~SiblingFailed(stage)

InputsPresent(a) == \A x \in Inputs(a) : artifactStore[x] # {}

SetAct(a, s) == act' = [act EXCEPT ![a] = s]

\* Each failure taken as the cause, the last one standing.
FailLastWins(a, e) ==
  /\ act' = [act EXCEPT ![a] = "failed"]
  /\ error' = [error EXCEPT ![a] = e]
  /\ cause' = e

\* Action a fails with error e; the first error of an execution is its cause.
Fail(a, e) ==
  /\ act' = [act EXCEPT ![a] = "failed"]
  /\ error' = [error EXCEPT ![a] = e]
  /\ cause' = (IF cause = "none" THEN e ELSE cause)

Succeed(a) ==
  /\ act' = [act EXCEPT ![a] = "succeeded"]
  /\ UNCHANGED << error, cause >>

\* A stage taken to be complete as soon as one of its actions has failed.
StageCompleteOnFirstFailure ==
  \/ SiblingFailed(stage)
  \/ \A a \in StageActions(stage) : Terminal(a)

\* A stage taken to be complete only once each of its actions has run.
StageCompleteAllTerminal == \A a \in StageActions(stage) : Terminal(a)

\* A stage is complete when each of its actions is terminal, or was never
\* dispatched because a sibling had failed.
StageComplete ==
  \A a \in StageActions(stage) :
     \/ Terminal(a)
     \/ act[a] = "idle" /\ SiblingFailed(stage)

\* A stage taken to have succeeded as soon as it is complete.
StageSucceededWhenComplete ==
  \A a \in StageActions(stage) : act[a] \in {"succeeded", "failed"}

StageSucceeded == \A a \in StageActions(stage) : act[a] = "succeeded"

\* A new execution of the pipeline begins once the previous one has ended;
\* it starts at the first stage with an artifact store of its own.
Trigger ==
  /\ status \in {"idle", "succeeded", "failed"}
  /\ status' = "running"
  /\ stage' = 0
  /\ act' = [a \in Actions |-> "idle"]
  /\ error' = [a \in Actions |-> "none"]
  /\ cause' = "none"
  /\ artifactStore' = [x \in Artifacts |-> {}]
  /\ build' = NoBuild
  /\ applied' = {}
  /\ UNCHANGED << migrationVars, ecrImages, runtimeVars, desiredCount,
                  schema, instanceVars >>

\* The run moving on to the next stage whatever the outcome of the stage.
AdvancePastFailure ==
  /\ status = "running"
  /\ StageComplete
  /\ IF stage = LastStage
       THEN /\ status' = (IF StageSucceeded THEN "succeeded" ELSE "failed")
            /\ UNCHANGED stage
       ELSE stage' = stage + 1 /\ UNCHANGED status
  /\ UNCHANGED << act, error, cause, artifactStore, build, applied,
                  migrationVars, ecrImages, runtimeVars, desiredCount,
                  schema, instanceVars >>

\* The run leaves a complete stage: on to the next stage when every action
\* succeeded, and to its end otherwise.
Advance ==
  /\ status = "running"
  /\ StageComplete
  /\ IF ~StageSucceeded
       THEN status' = "failed" /\ UNCHANGED stage
       ELSE IF stage = LastStage
         THEN status' = "succeeded" /\ UNCHANGED stage
         ELSE stage' = stage + 1 /\ UNCHANGED status
  /\ UNCHANGED << act, error, cause, artifactStore, build, applied,
                  migrationVars, ecrImages, runtimeVars, desiredCount,
                  schema, instanceVars >>

\* ------------------------------------------------------------ source action
StartSource ==
  /\ CanStart(sourceAction)
  /\ SetAct(sourceAction, "running")
  /\ UNCHANGED << status, stage, error, cause, artifactStore, build, applied,
                  migrationVars, ecrImages, runtimeVars, desiredCount,
                  schema, instanceVars >>

\* The head of the environment's branch is fetched and stored as the output.
SourceSucceed(rev) ==
  /\ act[sourceAction] = "running"
  /\ artifactStore' = [artifactStore EXCEPT ![sourceArtifact] = {rev}]
  /\ Succeed(sourceAction)
  /\ UNCHANGED << status, stage, build, applied, migrationVars, ecrImages,
                  runtimeVars, desiredCount,
                  schema, instanceVars >>

SourceFail ==
  /\ act[sourceAction] = "running"
  /\ Fail(sourceAction, "SourceUnavailable")
  /\ UNCHANGED << status, stage, artifactStore, build, applied, migrationVars,
                  ecrImages, runtimeVars, desiredCount,
                  schema, instanceVars >>

\* ---------------------------------------------------- infrastructure action
StartInfrastructure ==
  /\ CanStart(infrastructureAction)
  /\ IF InputsPresent(infrastructureAction)
       THEN SetAct(infrastructureAction, "running") /\ UNCHANGED << error, cause >>
       ELSE Fail(infrastructureAction, "ArtifactMissing")
  /\ UNCHANGED << status, stage, artifactStore, build, applied, migrationVars,
                  ecrImages, runtimeVars, desiredCount,
                  schema, instanceVars >>

\* cdk deploy putting the image the stack declares back on the service.
ImageAfterStackDeployDeclared == BaseImage

\* cdk deploy of a stack whose service declaration is unchanged: the service
\* keeps the task definition the deploy action gave it.
ImageAfterStackDeploy == currentImageRef

\* cdk synth; cdk deploy ${stackName}
InfrastructureFinish(ok) ==
  /\ act[infrastructureAction] = "running"
  /\ IF ok THEN /\ Succeed(infrastructureAction)
                /\ currentImageRef' = ImageAfterStackDeploy
           ELSE /\ Fail(infrastructureAction, "BuildFailure")
                /\ UNCHANGED currentImageRef
  /\ UNCHANGED << status, stage, artifactStore, build, applied, migrationVars,
                  ecrImages, previousImageRef, rollout, rollbackAttempts,
                  desiredCount, schema, instanceVars >>

\* ------------------------------------------------------- build API action
Min(a, b) == IF a < b THEN a ELSE b
Max(a, b) == IF a > b THEN a ELSE b

\* cut -c 1-8: the tag one character short.
TagCutShort(version) == SubSeq(version, 1, Min(Len(version), TagLen - 1))

\* export TAG=$(echo $CODEBUILD_RESOLVED_SOURCE_VERSION | cut -c 1-9)
Tag(version) == SubSeq(version, 1, Min(Len(version), TagLen))

\* $ECR_REPO_URI:$TAG
ImageUri(tag) == [repo |-> ECR_REPO_URI, tag |-> tag]

\* printf '[{"name": "${serviceName}", "imageUri": "%s"}]' $ECR_REPO_URI:$TAG
ImageDefinitions(tag) == [name |-> serviceName, imageUri |-> ImageUri(tag)]

BuildTag == Tag(CHOOSE v \in build.version : TRUE)

StartBuildApi ==
  /\ CanStart(apiAction)
  /\ IF InputsPresent(apiAction)
       THEN /\ SetAct(apiAction, "running")
            /\ build' =
                 [phase |-> "pre_build", ok |-> TRUE,
                  version |-> artifactStore[sourceArtifact],
                  local |-> {}, file |-> {}]
            /\ UNCHANGED << error, cause >>
       ELSE Fail(apiAction, "ArtifactMissing") /\ UNCHANGED build
  /\ UNCHANGED << status, stage, artifactStore, applied, migrationVars,
                  ecrImages, runtimeVars, desiredCount,
                  schema, instanceVars >>

\* pre_build: a failure here ends the build without build, post_build or upload.
PreBuild(ok) ==
  /\ act[apiAction] = "running"
  /\ build.phase = "pre_build"
  /\ build' = [build EXCEPT !.phase = IF ok THEN "build" ELSE "finalizing",
                            !.ok = ok]
  /\ UNCHANGED << pipelineVars, artifactStore, applied, migrationVars, ecrImages,
                  runtimeVars, desiredCount,
                  schema, instanceVars >>

\* build: yarn build; docker build -t URI:TAG; docker tag URI:TAG URI:latest.
\* n commands succeed; the phase fails at the first command that fails, and
\* post_build runs either way.
BuildCommands == 3
BuildPhase(n) ==
  /\ act[apiAction] = "running"
  /\ build.phase = "build"
  /\ n \in 0..BuildCommands
  /\ build' = [build EXCEPT
       !.phase = "post_build",
       !.ok = (n = BuildCommands),
       !.local = (IF n >= 2 THEN {"TAG"} ELSE {}) \cup
                    (IF n >= 3 THEN {"latest"} ELSE {})]
  /\ UNCHANGED << pipelineVars, artifactStore, applied, migrationVars, ecrImages,
                  runtimeVars, desiredCount,
                  schema, instanceVars >>

\* post_build: docker push URI:TAG; docker push URI:latest; printf ... >
\* imagedefinitions.json.  n commands succeed; a push needs the local image.
PostBuildCommands == 3
\* post_build with the printf placed before the two pushes.
PostBuildEffectsFileFirst(n) ==
  /\ ecrImages' = ecrImages \cup (IF n >= 1 THEN {BuildTag} ELSE {})
                            \cup (IF n >= 2 THEN {LatestTag} ELSE {})
  /\ build' = [build EXCEPT
       !.phase = "upload",
       !.ok = build.ok /\ (n = PostBuildCommands),
       !.file = {ImageDefinitions(BuildTag)}]

PostBuildEffects(n) ==
  /\ ecrImages' = ecrImages \cup (IF n >= 1 THEN {BuildTag} ELSE {})
                            \cup (IF n >= 2 THEN {LatestTag} ELSE {})
  /\ build' = [build EXCEPT
       !.phase = "upload",
       !.ok = build.ok /\ (n = PostBuildCommands),
       !.file = IF n >= 3 THEN {ImageDefinitions(BuildTag)} ELSE {}]

PostBuild(n) ==
  /\ act[apiAction] = "running"
  /\ build.phase = "post_build"
  /\ n \in 0..PostBuildCommands
  /\ n >= 1 => "TAG" \in build.local
  /\ n >= 2 => "latest" \in build.local
  /\ PostBuildEffects(n)
  /\ UNCHANGED << pipelineVars, artifactStore, applied, migrationVars,
                  runtimeVars, desiredCount,
                  schema, instanceVars >>

\* A buildspec without the artifacts section: nothing is uploaded.
UploadNothing ==
  /\ act[apiAction] = "running"
  /\ build.phase = "upload"
  /\ build' = [build EXCEPT !.phase = "finalizing"]
  /\ UNCHANGED << pipelineVars, artifactStore, applied, migrationVars, ecrImages,
                  runtimeVars, desiredCount,
                  schema, instanceVars >>

\* artifacts: files: ['imagedefinitions.json']; a missing file fails the build.
UploadArtifacts ==
  /\ act[apiAction] = "running"
  /\ build.phase = "upload"
  /\ IF build.file # {}
       THEN /\ artifactStore' = [artifactStore EXCEPT ![buildArtifact] = build.file]
            /\ build' = [build EXCEPT !.phase = "finalizing"]
       ELSE /\ UNCHANGED artifactStore
            /\ build' = [build EXCEPT !.phase = "finalizing", !.ok = FALSE]
  /\ UNCHANGED << pipelineVars, applied, migrationVars, ecrImages, runtimeVars,
                  desiredCount,
                  schema, instanceVars >>

FinalizeBuild ==
  /\ act[apiAction] = "running"
  /\ build.phase = "finalizing"
  /\ build' = [build EXCEPT !.phase = "done"]
  /\ IF build.ok THEN Succeed(apiAction)
                    ELSE Fail(apiAction, "BuildFailure")
  /\ UNCHANGED << status, stage, artifactStore, applied, migrationVars, ecrImages,
                  runtimeVars, desiredCount,
                  schema, instanceVars >>

\* --------------------------------------------------------- migration action
\* The project admits a build while fewer than concurrentBuildLimit are running.
MigrationAdmitted == activeBuilds < concurrentBuildLimit

\* A build that stays counted against the limit when it fails.
BuildsAfterSuccessOnly(ok) == IF ok THEN activeBuilds - 1 ELSE activeBuilds

\* A build that has ended, on either outcome, no longer counts against the
\* project's limit.
BuildsAfter(ok) == activeBuilds - 1

\* A build over the limit is refused at once: the action fails without
\* having run.
StartMigration ==
  /\ CanStart(migrationAction)
  /\ IF ~InputsPresent(migrationAction)
       THEN Fail(migrationAction, "ArtifactMissing") /\ UNCHANGED activeBuilds
       ELSE IF MigrationAdmitted
         THEN /\ SetAct(migrationAction, "running")
              /\ activeBuilds' = activeBuilds + 1
              /\ UNCHANGED << error, cause >>
         ELSE Fail(migrationAction, "MigrationConflict") /\ UNCHANGED activeBuilds
  /\ UNCHANGED << status, stage, artifactStore, build, applied, other, ecrImages,
                  runtimeVars, desiredCount,
                  schema, instanceVars >>

\* yarn migrate:run ends; the build leaves the project on either outcome.
\* A run that succeeds has brought the schema to the migrations of the
\* revision it checked out.
MigrationFinish(ok) ==
  /\ act[migrationAction] = "running"
  /\ activeBuilds' = BuildsAfter(ok)
  /\ IF ok THEN Succeed(migrationAction) /\ schema' = artifactStore[sourceArtifact]
           ELSE Fail(migrationAction, "MigrationFailure") /\ UNCHANGED schema
  /\ UNCHANGED << status, stage, artifactStore, build, applied, other, ecrImages,
                  runtimeVars, desiredCount,
                  instanceVars >>

\* The migration action of another pipeline instance starts a build of the
\* project: admitted or refused like this pipeline's.
OtherMigrationStart(i) ==
  /\ other[i] # "running"
  /\ IF MigrationAdmitted
       THEN /\ other' = [other EXCEPT ![i] = "running"]
            /\ activeBuilds' = activeBuilds + 1
       ELSE /\ other' = [other EXCEPT ![i] = "MigrationConflict"]
            /\ UNCHANGED activeBuilds
  /\ UNCHANGED << pipelineVars, artifactStore, build, applied, ecrImages,
                  runtimeVars, desiredCount,
                  schema, instanceVars >>

\* The other instance's build ends; one that succeeds has brought the schema
\* to the migrations of the revision that instance checked out.
OtherMigrationFinish(i, ok) ==
  /\ other[i] = "running"
  /\ other' = [other EXCEPT ![i] = IF ok THEN "succeeded" ELSE "MigrationFailure"]
  /\ activeBuilds' = BuildsAfter(ok)
  /\ IF ok THEN \E rev \in Revisions : schema' = {rev}
           ELSE UNCHANGED schema
  /\ UNCHANGED << pipelineVars, artifactStore, build, applied, ecrImages,
                  runtimeVars, desiredCount, instanceVars >>

\* ------------------------------------------------------------ deploy action
RolloutInProgress == rollout \in {"rolling-out", "rolling-back"}

\* imageFile: imagedefinitions.json of the build artifact
ImageFile == (CHOOSE d \in artifactStore[buildArtifact] : TRUE).imageUri

\* The service takes the image of the image file as its task definition's
\* image and begins a rolling update.  The service runs one rollout at a
\* time; a service left in a failed rollback takes no deployment.
StartDeploy ==
  /\ CanStart(deployApiAction)
  /\ ~RolloutInProgress
  /\ IF ~InputsPresent(deployApiAction)
       THEN /\ Fail(deployApiAction, "ArtifactMissing")
            /\ UNCHANGED << applied, runtimeVars >>
       ELSE IF rollout = "fatal"
         THEN /\ Fail(deployApiAction, "DeployFailure")
              /\ UNCHANGED << applied, runtimeVars >>
         ELSE /\ SetAct(deployApiAction, "running")
              /\ applied' = {ImageFile}
              /\ previousImageRef' = currentImageRef
              /\ currentImageRef' = ImageFile
              /\ rollout' = "rolling-out"
              /\ rollbackAttempts' = 0
              /\ UNCHANGED << error, cause >>
  /\ UNCHANGED << status, stage, artifactStore, build, migrationVars, ecrImages,
                  desiredCount,
                  schema, instanceVars >>

ImageAvailable(ref) == ref = BaseImage \/ ref.tag \in ecrImages

\* The new tasks report healthy within the grace period.
HealthPass ==
  /\ rollout = "rolling-out"
  /\ ImageAvailable(currentImageRef)
  /\ rollout' = "healthy"
  /\ Succeed(deployApiAction)
  /\ UNCHANGED << status, stage, artifactStore, build, applied, migrationVars,
                  ecrImages, currentImageRef, previousImageRef, rollbackAttempts,
                  desiredCount,
                  schema, instanceVars >>

\* circuitBreaker: the rollout did not become healthy in time.  With rollback
\* the service rolls back; without it the failed deployment stays in place.
HealthTimeout ==
  /\ rollout = "rolling-out"
  /\ IF circuitBreakerRollback
       THEN /\ rollout' = "rolling-back"
            /\ UNCHANGED << act, error, cause >>
       ELSE /\ rollout' = "fatal"
                      /\ Fail(deployApiAction, "DeployHealthCheckTimeout")
  /\ UNCHANGED << status, stage, artifactStore, build, applied, migrationVars,
                  ecrImages, currentImageRef, previousImageRef, rollbackAttempts,
                  desiredCount,
                  schema, instanceVars >>

\* A rollback that leaves the failed image in place.
RollbackTargetUnchanged == currentImageRef

\* A rollback to the image the stack declares for the task definition.
RollbackToBase == BaseImage

\* The image the rollback restores.
RollbackTarget == previousImageRef

\* The rollback converges: the service runs the previous image again.
RollbackConverge ==
  /\ rollout = "rolling-back"
  /\ currentImageRef' = RollbackTarget
  /\ rollout' = "stable"
  /\ rollbackAttempts' = 0
  /\ Fail(deployApiAction, "DeployHealthCheckTimeout")
  /\ UNCHANGED << status, stage, artifactStore, build, applied, migrationVars,
                  ecrImages, previousImageRef, desiredCount, schema,
                  instanceVars >>

\* A rollback attempt fails and is made again.
RollbackRetry ==
  /\ rollout = "rolling-back"
  /\ rollbackAttempts < MaxRollbackRetries
  /\ rollbackAttempts' = rollbackAttempts + 1
  /\ UNCHANGED << pipelineVars, artifactStore, build, applied, migrationVars,
                  ecrImages, currentImageRef, previousImageRef, rollout,
                  desiredCount,
                  schema, instanceVars >>

\* The rollback did not converge: the action fails and the service is left
\* to an operator.
RollbackEscalate ==
  /\ rollout = "rolling-back"
  /\ rollbackAttempts = MaxRollbackRetries
  /\ rollout' = "fatal"
  /\ rollbackAttempts' = 0
  /\ Fail(deployApiAction, "RollbackFailure")
  /\ UNCHANGED << status, stage, artifactStore, build, applied, migrationVars,
                  ecrImages, currentImageRef, previousImageRef, desiredCount,
                  schema, instanceVars >>

\* -------------------------------------------------------------- autoscaling
\* Target tracking: the count at which the observed utilization would sit at
\* the target, rounded up.
Recommend(count, utilization, target) ==
  (count * utilization + target - 1) \div target

\* A scalable target without maxCapacity.
ClampMinOnly(n) == Max(minCapacity, n)

\* autoScaleTaskCount({ maxCapacity, minCapacity })
Clamp(n) == Max(minCapacity, Min(maxCapacity, n))

\* The memory policy applied last and overriding the CPU policy.
EffectiveDesiredMemoryWins(count, cpu, mem) ==
  Clamp(Recommend(count, mem, ramTargetUtilizationPercent))

\* Two policies on one scalable target: the service scales out when either
\* asks for it and scales in only as far as both allow.
EffectiveDesired(count, cpu, mem) ==
  Clamp(Max(Recommend(count, cpu, cpuTargetUtilizationPercent),
            Recommend(count, mem, ramTargetUtilizationPercent)))

Observe(cpu, mem) ==
  /\ desiredCount' = EffectiveDesired(desiredCount, cpu, mem)
  /\ desiredCount' # desiredCount
  /\ UNCHANGED << pipelineVars, artifactStore, build, applied, migrationVars,
                  ecrImages, runtimeVars,
                  schema, instanceVars >>

\* ------------------------------------------------------------ specification
Next ==
  \/ Trigger
  \/ Advance
  \/ StartSource
  \/ \E rev \in RevisionsOn(branch) : SourceSucceed(rev)
  \/ SourceFail
  \/ StartInfrastructure
  \/ \E ok \in BOOLEAN : InfrastructureFinish(ok)
  \/ StartBuildApi
  \/ \E ok \in BOOLEAN : PreBuild(ok)
  \/ \E n \in 0..BuildCommands : BuildPhase(n)
  \/ \E n \in 0..PostBuildCommands : PostBuild(n)
  \/ UploadArtifacts
  \/ FinalizeBuild
  \/ StartMigration
  \/ \E ok \in BOOLEAN : MigrationFinish(ok)
  \/ \E i \in Others : OtherMigrationStart(i)
  \/ \E i \in Others, ok \in BOOLEAN : OtherMigrationFinish(i, ok)
  \/ StartDeploy
  \/ HealthPass
  \/ HealthTimeout
  \/ RollbackConverge
  \/ RollbackRetry
  \/ RollbackEscalate
  \/ \E cpu \in Utilizations, mem \in Utilizations : Observe(cpu, mem)

Spec == Init /\ [][Next]_vars

\* The pipeline of a stack instantiated with any environment name.
AnyEnvironmentSpec == InitAnyEnvironment /\ [][Next]_vars

\* The service scheduler keeps working on a rollout in progress: the health
\* check window ends, and a rollback is attempted again until it ends.
RolloutStep == HealthPass \/ HealthTimeout
RollbackStep == RollbackConverge \/ RollbackRetry \/ RollbackEscalate
FairSpec == Spec /\ WF_vars(RolloutStep) /\ WF_vars(RollbackStep)

\* The steps of a run: the pipeline dispatches the actions of the current
\* stage and leaves a complete stage, and an action that was started goes on
\* to its end.
RunStep ==
  \/ Advance
  \/ StartSource
  \/ \E rev \in RevisionsOn(branch) : SourceSucceed(rev)
  \/ SourceFail
  \/ StartInfrastructure
  \/ \E ok \in BOOLEAN : InfrastructureFinish(ok)
  \/ StartBuildApi
  \/ \E ok \in BOOLEAN : PreBuild(ok)
  \/ \E n \in 0..BuildCommands : BuildPhase(n)
  \/ \E n \in 0..PostBuildCommands : PostBuild(n)
  \/ UploadArtifacts
  \/ FinalizeBuild
  \/ StartMigration
  \/ \E ok \in BOOLEAN : MigrationFinish(ok)
  \/ StartDeploy
  \/ RolloutStep
  \/ RollbackStep
RunFairSpec == Spec /\ WF_vars(RunStep)

\* ------------------------------------------------------------------ claims
StageOrder == << "CheckoutSource", "DeployInfrastructure", "BuildAPI", "DeployAPI" >>
ActionsOfStageNamed(name) ==
  UNION {Range(stages[i].actions) : i \in {j \in DOMAIN stages : stages[j].stageName = name}}

\* C1: in every reachable state of a run, no action of stage n+1 (in the order
\* CheckoutSource, DeployInfrastructure, BuildAPI, DeployAPI) has started
\* while an action of stage n is neither succeeded nor failed.
C1_Sequencing ==
  \A n \in 1..(Len(StageOrder) - 1) :
    \A a \in ActionsOfStageNamed(StageOrder[n]), b \in ActionsOfStageNamed(StageOrder[n + 1]) :
      Started(b) => Terminal(a)

C1_Witness ==
  /\ act[deployApiAction] = "running"
  /\ act[migrationAction] = "running"
  /\ act[apiAction] = "succeeded"

\* C2: once an action of a stage has failed, no action of a later stage is
\* ever started in that run, the run does not move past the stage, and the
\* run's status never becomes succeeded: it ends failed.
C2_FailureAborts ==
  /\ []( \A a \in Actions : act[a] = "failed" =>
           /\ \A b \in Actions : StageOf(b) > StageOf(a) => act[b] = "idle"
           /\ stage = StageOf(a)
           /\ status \in {"running", "failed"}
           /\ cause # "none" )
  /\ [][ (\E a \in Actions : act[a] = "failed") /\ status = "running" /\ status' # status
           => status' = "failed" ]_vars

C2_Witness ==
  /\ status = "failed"
  /\ act[apiAction] = "failed"
  /\ act[deployApiAction] = "idle"
  /\ act[migrationAction] = "idle"

RunningMigrations ==
  (IF act[migrationAction] = "running" THEN 1 ELSE 0)
    + Cardinality({i \in Others : other[i] = "running"})

\* C3: at most one migration action executes against the database in any
\* reachable state; an attempt made while one is executing is never blocked
\* and ends in that same step, failed with MigrationConflict, without running.
C3_MigrationExclusive ==
  /\ [](RunningMigrations <= 1)
  /\ [](CanStart(migrationAction) => ENABLED StartMigration)
  /\ [][ RunningMigrations >= 1 /\ act[migrationAction] = "idle" /\ act'[migrationAction] # "idle"
           => act'[migrationAction] = "failed" /\ error'[migrationAction] = "MigrationConflict" ]_vars
  /\ [][ \A i \in Others :
           RunningMigrations >= 1 /\ other[i] # "running" /\ other'[i] # other[i]
             => other'[i] = "MigrationConflict" ]_vars

C3_Witness ==
  /\ act[migrationAction] = "failed"
  /\ error[migrationAction] = "MigrationConflict"
  /\ \E i \in Others : other[i] = "running"

\* C4: a deploy action that has succeeded leaves currentImageRef equal to the
\* image reference it deployed (the imageUri of the build artifact); a deploy
\* that was rolled back leaves it equal to the value it had in the state right
\* before that deploy began.
C4_DeployImage ==
  /\ []( act[deployApiAction] = "succeeded" =>
           /\ artifactStore[buildArtifact] # {}
           /\ currentImageRef = ImageFile
           /\ applied = {currentImageRef} )
  /\ [][ act[deployApiAction] = "idle" /\ act'[deployApiAction] = "running"
           => previousImageRef' = currentImageRef ]_vars
  /\ [][ act[deployApiAction] = "running" => previousImageRef' = previousImageRef ]_vars
  /\ []( act[deployApiAction] = "failed" /\ rollout = "stable" =>
           currentImageRef = previousImageRef )

C4_Witness ==
  /\ act[deployApiAction] = "failed"
  /\ rollout = "stable"
  /\ currentImageRef # BaseImage
  /\ applied # {currentImageRef}

C6_CapacityBounds ==
  /\ minCapacity <= desiredCount
  /\ desiredCount <= maxCapacity
  /\ 1 <= desiredCount /\ desiredCount <= 4
  /\ \A a \in Actions : error[a] # "CapacityBoundViolation"
  /\ cause # "CapacityBoundViolation"

C6_Witness ==
  /\ desiredCount = maxCapacity
  /\ rollout = "stable"
  /\ act[deployApiAction] = "failed"

\* The least count at which a utilization of util percent, observed at
\* count tasks, is at or under target percent.
Needed(count, util, target) ==
  CHOOSE n \in 0..(2 * count) : n * target >= count * util /\ (n - 1) * target < count * util

SmallerOf(a, b) == IF a <= b THEN a ELSE b
LargerOf(a, b) == IF a >= b THEN a ELSE b

\* C7: the count an observation sets is the larger of the CPU policy's and
\* the memory policy's requests, capped at maxCapacity; with CPU at 80%,
\* memory at 30%, targets 50%, min 1 and max 4 it is the CPU policy's
\* request capped at 4, and is not lowered by the memory policy's request.
C7_MaxAcrossLoops ==
  /\ []( \A cpu \in Utilizations, mem \in Utilizations :
           EffectiveDesired(desiredCount, cpu, mem) =
             SmallerOf(maxCapacity, LargerOf(Needed(desiredCount, cpu, 50),
                                             Needed(desiredCount, mem, 50))) )
  /\ []( /\ EffectiveDesired(desiredCount, 80, 30) = SmallerOf(4, Needed(desiredCount, 80, 50))
         /\ EffectiveDesired(desiredCount, 80, 30) >= desiredCount
         /\ EffectiveDesired(desiredCount, 80, 30) <= 4 )
  /\ [][ desiredCount' # desiredCount =>
           \E cpu \in Utilizations, mem \in Utilizations :
             desiredCount' = SmallerOf(maxCapacity, LargerOf(Needed(desiredCount, cpu, 50),
                                                             Needed(desiredCount, mem, 50))) ]_vars

C7_Witness ==
  /\ desiredCount = 2
  /\ Needed(desiredCount, 80, 50) = 4
  /\ Needed(desiredCount, 30, 50) = 2

\* C8: an action that has started has read only artifacts written by an
\* action of an earlier stage that succeeded; an artifact is in the store in
\* every state in which its writer is marked succeeded; the deploy action
\* has applied only the image of the artifact of a succeeded build.
C8_ArtifactVisibility ==
  /\ \A a \in Actions : \A x \in Inputs(a) :
       Started(a) => /\ act[Producer(x)] = "succeeded"
                     /\ artifactStore[x] # {}
                     /\ StageOf(Producer(x)) < StageOf(a)
  /\ \A p \in Actions : \A x \in Outputs(p) :
       act[p] = "succeeded" => artifactStore[x] # {}
  /\ applied # {} => /\ act[apiAction] = "succeeded"
                     /\ artifactStore[buildArtifact] # {}
                     /\ applied = {ImageFile}

C8_Witness ==
  /\ applied # {}
  /\ act[deployApiAction] = "running"
  /\ act[migrationAction] = "idle"

\* C9: a build that fails, a failed image push included, leaves no output
\* descriptor in the store; a descriptor in the store is complete (name and
\* imageUri of the pushed image) in every reachable state.
C9_AtomicPublication ==
  /\ act[apiAction] = "failed" => artifactStore[buildArtifact] = {}
  /\ (act[apiAction] = "running" /\ ~build.ok) => artifactStore[buildArtifact] = {}
  /\ \A d \in artifactStore[buildArtifact] :
       /\ DOMAIN d = {"name", "imageUri"}
       /\ d.name = serviceName
       /\ d.imageUri = ImageUri(BuildTag)
       /\ BuildTag \in ecrImages
       /\ LatestTag \in ecrImages
  /\ Cardinality(artifactStore[buildArtifact]) <= 1

C9_Witness ==
  /\ act[apiAction] = "failed"
  /\ build.phase = "done"
  /\ BuildTag \in ecrImages
  /\ LatestTag \notin ecrImages
  /\ artifactStore[buildArtifact] = {}

\* C10: the stages are CheckoutSource, DeployInfrastructure, BuildAPI and
\* DeployAPI with ordinals 0..3, and every artifact an action consumes is
\* produced in a strictly earlier stage: the source artifact in stage 0 for
\* stages 1 to 3, the build artifact in stage 2 for stage 3.
C10_Topology ==
  /\ Len(stages) = Len(StageOrder)
  /\ \A i \in DOMAIN stages : stages[i].stageName = StageOrder[i]
  /\ {StageOf(a) : a \in Actions} = 0..3
  /\ stage \in 0..3
  /\ \A a \in Actions : \A x \in Inputs(a) : StageOf(Producer(x)) < StageOf(a)
  /\ StageOf(Producer(sourceArtifact)) = 0
  /\ {StageOf(a) : a \in {b \in Actions : sourceArtifact \in Inputs(b)}} = {1, 2, 3}
  /\ StageOf(Producer(buildArtifact)) = 2
  /\ {StageOf(a) : a \in {b \in Actions : buildArtifact \in Inputs(b)}} = {3}

C10_Witness ==
  /\ stage = 3
  /\ act[deployApiAction] = "succeeded"
  /\ act[migrationAction] = "succeeded"
  /\ status = "succeeded"

\* C11: the deploy action and the migration action are siblings of one stage
\* and neither waits for the other: whenever one of them can be dispatched the
\* other, if not yet dispatched, can be too; the deploy can begin and its
\* rollout can end healthy whatever the state of the migration.  (The state
\* this allows, the new image healthy on a schema the migration has not yet
\* brought to the revision, is C11_Witness.)
C11_UnorderedSiblings ==
  /\ StageOf(deployApiAction) = StageOf(migrationAction)
  /\ (CanStart(migrationAction) /\ act[deployApiAction] = "idle")
       => CanStart(deployApiAction)
  /\ (CanStart(deployApiAction) /\ act[migrationAction] = "idle")
       => CanStart(migrationAction)
  /\ CanStart(deployApiAction) => ENABLED StartDeploy
  /\ CanStart(migrationAction) => ENABLED StartMigration
  /\ (act[deployApiAction] = "running" /\ rollout = "rolling-out"
        /\ ImageAvailable(currentImageRef)) => ENABLED HealthPass

C11_Witness ==
  /\ act[deployApiAction] = "succeeded"
  /\ rollout = "healthy"
  /\ currentImageRef = ImageFile
  /\ act[migrationAction] = "running"
  /\ schema # artifactStore[sourceArtifact]

\* C12: the branch of the source action is a function of the environment name
\* alone: dev gives dev, test gives test, prod gives main, and every name
\* outside the table gives the name itself; it is the branch chosen at
\* instantiation in every state of every run.
C12_BranchMapping ==
  /\ environmentName = "dev" => branch = "dev"
  /\ environmentName = "test" => branch = "test"
  /\ environmentName = "prod" => branch = "main"
  /\ environmentName \notin {"dev", "test", "prod"} => branch = environmentName
  /\ branch = Branch(environmentName)

\* The revision the run checked out.
RunRevision == CHOOSE v \in artifactStore[sourceArtifact] : TRUE

\* C13: re-runs are idempotent.  The image a successful deploy leaves is
\* determined by the revision of the run alone, so a second successful run at
\* the same revision ends with the currentImageRef of the first; a deploy of
\* the image the service already runs leaves currentImageRef at that image
\* in every state, also when its rollout times out and is rolled back; a
\* run's store holds one payload per artifact, the one its revision
\* determines; and desiredCount changes only in an autoscaling step, which
\* changes nothing of the run.
C13_Idempotence ==
  /\ []( act[deployApiAction] = "succeeded" =>
           currentImageRef = ImageUri(Tag(RunRevision)) )
  /\ []( (applied # {} /\ applied = {previousImageRef}) =>
           currentImageRef = previousImageRef )
  /\ []( \A x \in Artifacts : Cardinality(artifactStore[x]) <= 1 )
  /\ []( artifactStore[buildArtifact] # {} =>
           artifactStore[buildArtifact] = {ImageDefinitions(Tag(RunRevision))} )
  /\ [][ desiredCount' # desiredCount =>
           /\ \E cpu \in Utilizations, mem \in Utilizations :
                desiredCount' = EffectiveDesired(desiredCount, cpu, mem)
           /\ UNCHANGED << pipelineVars, artifactStore, build, applied,
                           ecrImages, runtimeVars, schema >> ]_vars
  /\ [][ (status # "running" /\ status' = "running") =>
           /\ artifactStore' = [x \in Artifacts |-> {}]
           /\ UNCHANGED << currentImageRef, desiredCount, ecrImages >> ]_vars

C13_Witness ==
  /\ status = "succeeded"
  /\ applied = {previousImageRef}
  /\ currentImageRef = previousImageRef
  /\ currentImageRef = ImageUri(Tag(ShortRevision))
  /\ artifactStore[sourceArtifact] = {ShortRevision}

RECURSIVE Concat(_)
Concat(chars) == IF chars = <<>> THEN "" ELSE Head(chars) \o Concat(Tail(chars))

\* An image reference as text: repository:tag.
Text(ref) == ref.repo \o ":" \o Concat(ref.tag)

AllSucceeded == \A a \in Actions : act[a] = "succeeded"

\* C14: in environment dev, on branch dev, at revision abc123def: the build
\* publishes imageUri registry/svc:abc123def; a deploy whose health checks
\* pass leaves that image as currentImageRef; once every action has
\* succeeded the run can end, and the only status it can take is succeeded;
\* a run that has succeeded has currentImageRef registry/svc:abc123def.
C14_EndToEndSuccess ==
  /\ (environmentName = "dev" /\ artifactStore[sourceArtifact] = {ShortRevision}) =>
       /\ branch = "dev"
       /\ artifactStore[buildArtifact] # {} =>
            Text(ImageFile) = "registry/svc:abc123def"
       /\ act[deployApiAction] = "succeeded" =>
            /\ rollout = "healthy"
            /\ Text(currentImageRef) = "registry/svc:abc123def"
       /\ status = "succeeded" =>
            /\ AllSucceeded
            /\ cause = "none"
            /\ Text(currentImageRef) = "registry/svc:abc123def"
  /\ (AllSucceeded /\ status = "running") =>
       /\ ENABLED (Advance /\ status' = "succeeded")
       /\ ~ENABLED (Next /\ status' \notin {"running", "succeeded"})
  /\ AllSucceeded => status \in {"running", "succeeded"}

C14_Witness ==
  /\ environmentName = "dev"
  /\ branch = "dev"
  /\ artifactStore[sourceArtifact] = {ShortRevision}
  /\ status = "succeeded"
  /\ previousImageRef = BaseImage
  /\ Text(currentImageRef) = "registry/svc:abc123def"

DeployTimedOut == error[deployApiAction] \in {"DeployHealthCheckTimeout", "RollbackFailure"}

Siblings(a, b) == a # b /\ StageOf(a) = StageOf(b)

\* C16: once an action of a stage has failed, a sibling that has not started
\* stays not started; an action that is running stays running until it
\* becomes succeeded or failed itself, and the run does not end while one is
\* running; in DeployAPI a rollout in progress goes on after the migration
\* has failed, and a running migration can still end either way after the
\* deploy has failed.
C16_SiblingsOnFailure ==
  /\ [][ \A a \in Actions : act[a] = "failed" =>
           \A b \in Actions :
             (act[b] = "idle" /\ Siblings(a, b)) => act'[b] = "idle" ]_vars
  /\ [][ \A b \in Actions :
           act[b] = "running" => act'[b] \in {"running", "succeeded", "failed"} ]_vars
  /\ []( \A b \in Actions : act[b] = "running" => status = "running" )
  /\ []( (act[migrationAction] = "failed" /\ act[deployApiAction] = "running") =>
           /\ RolloutInProgress
           /\ rollout = "rolling-out" => ENABLED HealthTimeout
           /\ (rollout = "rolling-out" /\ ImageAvailable(currentImageRef))
                => ENABLED HealthPass
           /\ rollout = "rolling-back" => ENABLED RollbackConverge )
  /\ []( (act[deployApiAction] = "failed" /\ act[migrationAction] = "running") =>
           /\ ENABLED MigrationFinish(TRUE)
           /\ ENABLED MigrationFinish(FALSE) )

C16_Witness ==
  /\ status = "running"
  /\ error[migrationAction] = "MigrationFailure"
  /\ cause = "MigrationFailure"
  /\ act[deployApiAction] = "running"
  /\ rollout = "rolling-out"

\* C17: the migration project counts exactly the migrations that are
\* executing, so a migration that has ended, succeeded or failed, no longer
\* holds the database; whenever none is executing the next attempt, of this
\* pipeline or of another instance, is admitted and cannot be refused with
\* MigrationConflict.
C17_LockRelease ==
  /\ activeBuilds = RunningMigrations
  /\ RunningMigrations = 0 => MigrationAdmitted
  /\ (RunningMigrations = 0 /\ CanStart(migrationAction)) =>
       /\ ENABLED (StartMigration /\ act'[migrationAction] = "running")
       /\ ~ENABLED (StartMigration /\ error'[migrationAction] = "MigrationConflict")
  /\ RunningMigrations = 0 =>
       \A i \in Others :
         /\ ENABLED (OtherMigrationStart(i) /\ other'[i] = "running")
         /\ ~ENABLED (OtherMigrationStart(i) /\ other'[i] = "MigrationConflict")

C17_Witness ==
  /\ error[migrationAction] = "MigrationFailure"
  /\ \E i \in Others : other[i] = "running"
  /\ activeBuilds = 1

FailedActions == {a \in Actions : act[a] = "failed"}

DeployStep ==
  \/ act'[deployApiAction] # act[deployApiAction]
  \/ rollout' # rollout
  \/ rollbackAttempts' # rollbackAttempts

C21_TagFromRevision ==
  artifactStore[buildArtifact] # {} =>
    /\ ImageFile = ImageUri(Tag(RunRevision))
    /\ \A r \in RevisionsOn(branch) :
         r # RunRevision => ImageUri(Tag(r)) # ImageFile

\* The source could not be retrieved in the current run.
SourceUnavailable == error[sourceAction] = "SourceUnavailable"

\* C22: when the source cannot be retrieved the run is aborted: none of the
\* infrastructure, build, migration and deploy actions is ever started in that
\* run, the run's artifact store stays empty, the run can only end failed with
\* SourceUnavailable as its cause, and no step of the run changes
\* currentImageRef.
C22_SourceUnavailableAborts ==
  [][ SourceUnavailable =>
        /\ \A a \in Actions \ {sourceAction} : act[a] = "idle"
        /\ \A x \in Artifacts : artifactStore[x] = {}
        /\ applied = {}
        /\ status \in {"running", "failed"}
        /\ cause = "SourceUnavailable"
        /\ SourceUnavailable' =>
             /\ currentImageRef' = currentImageRef
             /\ status' \in {"running", "failed"}
             /\ \A a \in Actions \ {sourceAction} : act'[a] = "idle"
             /\ \A x \in Artifacts : artifactStore'[x] = {} ]_vars

\* The run whose source could not be retrieved has ended.
C22_Witness == SourceUnavailable /\ status = "failed"

\* C23: when the steps of a run keep being taken, every run reaches a
\* terminal status; a run has succeeded exactly when it has ended with every
\* action of the four stages succeeded, and has failed otherwise.
C23_Termination ==
  /\ (status = "running") ~> (status \in {"succeeded", "failed"})
  /\ [](status \in {"succeeded", "failed"} =>
          (status = "succeeded" <=> AllSucceeded))

\* A run has ended failed with an action that was never started.
C23_Witness ==
  /\ status = "failed"
  /\ \E a \in Actions : act[a] = "idle"
  /\ \E a \in Actions : act[a] = "succeeded"

====
